---- MODULE Spec2Model ----
(***************************************************************************)
(* A model of folly/algorithm/simd/detail/SimdCharPlatform.h: the portable *)
(* wrapper SimdCharPlatformCommon, the three backend primitive sets (SSE2, *)
(* AVX2, AArch64 NEON) and the compile-time backend selection.             *)
(*                                                                         *)
(* Unsigned integers are modelled as the set of their set bit positions    *)
(* (bit 0 is the least significant), so that 64-bit masks keep their full  *)
(* width.  Registers are functions from lane index to byte value.          *)
(***************************************************************************)
EXTENDS Integers, Sequences, FiniteSets, TLC

VARIABLES
    pc,         \* the step the run is at
    ubShift,    \* what the build makes of an out-of-range shift count
    Uint,       \* setLowerNBits: bit width of the template argument Uint
    n,          \* setLowerNBits: the argument n
    lowBits,    \* setLowerNBits: the returned value
    shiftBy,    \* setLowerNBits: the shift counts evaluated on the 64-bit intermediate
    platform,   \* the backend primitive set the wrapper is composed with
    mmask,      \* clear: the compact mask passed in
    ignore,     \* the boundary descriptor (ignore_none or ignore_extrema)
    cleared,    \* clear: the returned mask
    logA,       \* a logical vector
    logB,       \* a second logical vector
    logOr,      \* logical_or(logA, logB)
    anyNone,    \* any(logA, ignore_none)
    anyA,       \* any(logA, ignore)
    anyB,       \* any(logB, ignore)
    anyOr,      \* any(logOr, ignore)
    maskA,      \* clear(movemask(logA), ignore)
    maskB,      \* clear(movemask(logB), ignore)
    maskOr,     \* clear(movemask(logOr), ignore)
    mem,        \* readable memory: a function from address to byte
    ptr,        \* the pointer handed to the loads
    readAddrs,  \* the addresses the last load read
    reg,        \* loadu(ptr, ignore_none)
    regUnsafe,  \* unsafeLoadu(ptr, ignore_none)
    regA,       \* loada(ptr, ignore_none)
    regAx,      \* loada(ptr, ignore)
    xChar,      \* the char x compared against
    eqLog,      \* equal(reg, x)
    leLog,      \* le_unsigned(reg, x)
    FOLLY_X64,      \* compile-time signal: the target is x86-64
    FOLLY_AARCH64,  \* compile-time signal: the target is AArch64
    AVX2,           \* compile-time signal: __AVX2__ is defined
    ppAt,           \* the preprocessor's position in Directives
    ppStack,        \* the open conditionals, innermost last
    hasMacro,       \* FOLLY_DETAIL_HAS_SIMD_CHAR_PLATFORM: "undefined", "0" or "1"
    declared,       \* the types and aliases declared so far
    SimdCharPlatform,  \* what the alias SimdCharPlatform names ("undeclared" until set)
    aliasCount      \* how many times SimdCharPlatform was declared

bitsVars == <<Uint, n, lowBits, shiftBy>>
clearVars == <<mmask, cleared>>
logVars == <<logA, logB, logOr, anyNone, anyA, anyB, anyOr, maskA, maskB, maskOr>>
loadVars == <<mem, ptr, readAddrs, reg, regUnsafe, regA, regAx>>
cmpVars == <<xChar, eqLog, leLog>>
signals == <<FOLLY_X64, FOLLY_AARCH64, AVX2>>
selVars == <<signals, ppAt, ppStack, hasMacro, declared, SimdCharPlatform, aliasCount>>
vars == <<pc, ubShift, platform, ignore, bitsVars, clearVars, logVars, loadVars, cmpVars, selVars>>

(***************************************************************************)
(* Fixed-width unsigned arithmetic on bit sets.                            *)
(***************************************************************************)
Bits(w) == 0 .. (w - 1)

AllOnes(w) == Bits(w)

Cast(w, x) == x \cap Bits(w)

Not(w, x) == Bits(w) \ x

And(x, y) == x \cap y

Or(x, y) == x \cup y

MinBit(x) == CHOOSE k \in x : \A j \in x : k <= j

\* x - 1 on std::uint64_t (wraps at zero)
Sub1_64(x) ==
    IF x = {} THEN AllOnes(64)
    ELSE LET k == MinBit(x) IN (x \ {k}) \cup Bits(k)

\* The outcomes a build can give a shift whose count is outside 0..63
\* (undefined behaviour): the count taken modulo 64, or every bit shifted out.
UbShiftOutcomes == {"mod64", "zero"}

\* x << k on std::uint64_t
Shl64(x, k) ==
    IF k \in 0 .. 63 THEN Cast(64, {i + k : i \in x})
    ELSE IF ubShift = "mod64" THEN Cast(64, {i + (k % 64) : i \in x})
    ELSE {}

\* The numeric value of a bit set (for values that fit TLC's integers)
RECURSIVE Val(_)
Val(x) == IF x = {} THEN 0 ELSE LET k == MinBit(x) IN 2^k + Val(x \ {k})

(***************************************************************************)
(* SimdCharPlatformCommon::setLowerNBits<Uint>(n), Uint given by its width *)
(***************************************************************************)
setLowerNBitsNoSpecialCase(W, k) == Cast(W, Sub1_64(Shl64({0}, k)))

setLowerNBits(W, k) ==
    IF W = 64 /\ k = 64 THEN AllOnes(W)
    ELSE Cast(W, Sub1_64(Shl64({0}, k)))

\* The shift counts setLowerNBits<Uint>(k) evaluates (none when it returns early)
setLowerNBitsShift(W, k) == IF W = 64 /\ k = 64 THEN {} ELSE {k}

UintWidths == {8, 16, 32, 64}

(***************************************************************************)
(* The backends and what folly::movemask<std::uint8_t> fixes for each      *)
(***************************************************************************)
Platforms == {"Sse2", "Avx2", "Aarch64"}

Sse2_kCardinal == 16
Avx2_kCardinal == 32
Aarch64_kCardinal == 16

kCardinal(p) ==
    CASE p = "Sse2" -> Sse2_kCardinal
      [] p = "Avx2" -> Avx2_kCardinal
      [] p = "Aarch64" -> Aarch64_kCardinal

Lanes(p) == 0 .. (kCardinal(p) - 1)

\* movemask_result_t::second_type: bits per lane in the compact mask
kMmaskBitsPerElement(p) ==
    CASE p = "Sse2" -> 1
      [] p = "Avx2" -> 1
      [] p = "Aarch64" -> 4

\* bit width of mmask_t = movemask_result_t::first_type
MmaskWidth(p) ==
    CASE p = "Sse2" -> 16
      [] p = "Avx2" -> 32
      [] p = "Aarch64" -> 64

(***************************************************************************)
(* The boundary descriptors: ignore_none{} and ignore_extrema{first, last} *)
(***************************************************************************)
ignore_none == [kind |-> "none", first |-> 0, last |-> 0]

ignore_extrema(f, l) == [kind |-> "extrema", first |-> f, last |-> l]

(***************************************************************************)
(* SimdCharPlatformCommon::clear, both overloads                           *)
(***************************************************************************)
clearExtremaNoClearFirst(p, m, ig) ==
    LET W == MmaskWidth(p)
        clearLast == setLowerNBits(W, (kCardinal(p) - ig.last) * kMmaskBitsPerElement(p))
    IN  And(m, clearLast)

clearExtremaLastFromBottom(p, m, ig) ==
    LET W == MmaskWidth(p)
        clearFirst == Not(W, setLowerNBits(W, ig.first * kMmaskBitsPerElement(p)))
        clearLast == setLowerNBits(W, (kCardinal(p) - ig.last) * kMmaskBitsPerElement(p) - 1)
    IN  And(And(m, clearFirst), clearLast)

clearExtrema(p, m, ig) ==
    LET W == MmaskWidth(p)
        clearFirst == Not(W, setLowerNBits(W, ig.first * kMmaskBitsPerElement(p)))
        clearLast == setLowerNBits(W, (kCardinal(p) - ig.last) * kMmaskBitsPerElement(p))
    IN  And(And(m, clearFirst), clearLast)

clearNone(p, m, ig) == m

\* overload resolution on the descriptor's type
clear(p, m, ig) ==
    IF ig.kind = "none" THEN clearNone(p, m, ig) ELSE clearExtrema(p, m, ig)

\* Largest argument n tried on setLowerNBits
MaxN == 64

(***************************************************************************)
(* Bytes and the per-lane meaning of the intrinsics the backends call.     *)
(* A register is a function from lane index to a byte value in 0..255.     *)
(***************************************************************************)
Byte == 0 .. 255

\* the set bit positions of every byte value
ByteBitsTable == [v \in Byte |-> {b \in 0 .. 7 : (v \div (2^b)) % 2 = 1}]

ByteBits(v) == ByteBitsTable[v]

\* the byte value with the set bit positions S
ByteVal(S) ==
    (IF 0 \in S THEN 1 ELSE 0) + (IF 1 \in S THEN 2 ELSE 0) +
    (IF 2 \in S THEN 4 ELSE 0) + (IF 3 \in S THEN 8 ELSE 0) +
    (IF 4 \in S THEN 16 ELSE 0) + (IF 5 \in S THEN 32 ELSE 0) +
    (IF 6 \in S THEN 64 ELSE 0) + (IF 7 \in S THEN 128 ELSE 0)

\* the low 8 bits of a char or int value, as an unsigned byte
ToByte(x) == x % 256

\* _mm_set1_epi8 / _mm256_set1_epi8 / vdupq_n_u8 on a register of K lanes
set1_epi8(K, x) == [i \in 0 .. (K - 1) |-> ToByte(x)]

\* _mm_cmpeq_epi8 / _mm256_cmpeq_epi8 / vceqq_u8
cmpeq_epi8(a, b) == [i \in DOMAIN a |-> IF a[i] = b[i] THEN 255 ELSE 0]

\* _mm_min_epu8 / _mm256_min_epu8
min_epu8(a, b) == [i \in DOMAIN a |-> IF a[i] <= b[i] THEN a[i] ELSE b[i]]

\* vcleq_u8
vcleq_u8(a, b) == [i \in DOMAIN a |-> IF a[i] <= b[i] THEN 255 ELSE 0]

\* _mm_or_si128 / _mm256_or_si256 / vorrq_u8
or_si128(a, b) == [i \in DOMAIN a |-> ByteVal(ByteBits(a[i]) \cup ByteBits(b[i]))]

\* vmaxvq_u8
vmaxvq_u8(a) ==
    LET R == {a[i] : i \in DOMAIN a}
    IN  CHOOSE m \in R : \A r \in R : r <= m

\* a byte read as a signed 8-bit value
SignedByte(v) == IF v >= 128 THEN v - 256 ELSE v

\* _mm_min_epi8 (signed)
min_epi8(a, b) ==
    [i \in DOMAIN a |-> IF SignedByte(a[i]) <= SignedByte(b[i]) THEN a[i] ELSE b[i]]

\* _mm_loadu_si128 / _mm256_loadu_si256 / vld1q_u8: K bytes starting at p
loadu_si(K, m, p) == [i \in 0 .. (K - 1) |-> m[p + i]]

\* the addresses such a load reads
loadu_footprint(K, p) == p .. (p + K - 1)

\* folly::movemask<std::uint8_t>(log).first: on x86 the top bit of each byte
\* (movemask_epi8); on AArch64 a narrowing shift right by 4 of the 16-bit
\* pairs, giving one nibble per byte (the high nibble of even lanes, the low
\* nibble of odd lanes).
folly_movemask(p, log) ==
    IF p = "Aarch64"
    THEN UNION {{4 * i + b : b \in {c \in 0 .. 3 :
                    IF i % 2 = 0 THEN (c + 4) \in ByteBits(log[i])
                    ELSE c \in ByteBits(log[i])}} : i \in DOMAIN log}
    ELSE {i \in DOMAIN log : 7 \in ByteBits(log[i])}

(***************************************************************************)
(* The backend primitive sets                                              *)
(***************************************************************************)
Sse2_loadu(m, p) == loadu_si(Sse2_kCardinal, m, p)

Sse2_unsafeLoadu(m, p) == loadu_si(Sse2_kCardinal, m, p)

Avx2_loadu(m, p) == loadu_si(Avx2_kCardinal, m, p)

Avx2_unsafeLoadu(m, p) == loadu_si(Avx2_kCardinal, m, p)

Aarch64_loadu(m, p) == loadu_si(Aarch64_kCardinal, m, p)

Aarch64_unsafeLoadu(m, p) == loadu_si(Aarch64_kCardinal, m, p)

\* Platform::loadu(ptr, ignore_none{})
loadu(pf, m, p) ==
    CASE pf = "Sse2" -> Sse2_loadu(m, p)
      [] pf = "Avx2" -> Avx2_loadu(m, p)
      [] pf = "Aarch64" -> Aarch64_loadu(m, p)

\* Platform::unsafeLoadu(ptr, ignore_none{})
unsafeLoadu(pf, m, p) ==
    CASE pf = "Sse2" -> Sse2_unsafeLoadu(m, p)
      [] pf = "Avx2" -> Avx2_unsafeLoadu(m, p)
      [] pf = "Aarch64" -> Aarch64_unsafeLoadu(m, p)

Sse2_equalAsLessEqual(r, c) == cmpeq_epi8(r, min_epu8(r, set1_epi8(Sse2_kCardinal, c)))

Sse2_equal(r, c) == cmpeq_epi8(r, set1_epi8(Sse2_kCardinal, c))

Avx2_equal(r, c) == cmpeq_epi8(r, set1_epi8(Avx2_kCardinal, c))

Aarch64_equal(r, c) == cmpeq_epi8(r, set1_epi8(Aarch64_kCardinal, ToByte(c)))

equal(pf, r, c) ==
    CASE pf = "Sse2" -> Sse2_equal(r, c)
      [] pf = "Avx2" -> Avx2_equal(r, c)
      [] pf = "Aarch64" -> Aarch64_equal(r, c)

Sse2_le_signed(r, c) ==
    LET min == min_epi8(r, set1_epi8(Sse2_kCardinal, c))
    IN  cmpeq_epi8(r, min)

Sse2_le_unsigned(r, c) ==
    LET min == min_epu8(r, set1_epi8(Sse2_kCardinal, c))
    IN  cmpeq_epi8(r, min)

Avx2_le_unsigned(r, c) ==
    LET min == min_epu8(r, set1_epi8(Avx2_kCardinal, c))
    IN  cmpeq_epi8(r, min)

Aarch64_le_unsigned(r, c) == vcleq_u8(r, set1_epi8(Aarch64_kCardinal, ToByte(c)))

le_unsigned(pf, r, c) ==
    CASE pf = "Sse2" -> Sse2_le_unsigned(r, c)
      [] pf = "Avx2" -> Avx2_le_unsigned(r, c)
      [] pf = "Aarch64" -> Aarch64_le_unsigned(r, c)

Sse2_logical_orFirstOnly(a, b) == a

Sse2_logical_or(a, b) == or_si128(a, b)

Avx2_logical_or(a, b) == or_si128(a, b)

Aarch64_logical_or(a, b) == or_si128(a, b)

logical_or(p, a, b) ==
    CASE p = "Sse2" -> Sse2_logical_or(a, b)
      [] p = "Avx2" -> Avx2_logical_or(a, b)
      [] p = "Aarch64" -> Aarch64_logical_or(a, b)

Sse2_any(log) == folly_movemask("Sse2", log) # {}

Avx2_any(log) == folly_movemask("Avx2", log) # {}

\* vminvq_u8
vminvq_u8(a) == IF \E i \in DOMAIN a : a[i] = 0 THEN 0 ELSE 255

Aarch64_anyByMin(log) == vminvq_u8(log) # 0

Aarch64_any(log) == vmaxvq_u8(log) # 0

\* Platform::any(logical_t, ignore_none)
Platform_any(p, log) ==
    CASE p = "Sse2" -> Sse2_any(log)
      [] p = "Avx2" -> Avx2_any(log)
      [] p = "Aarch64" -> Aarch64_any(log)

(***************************************************************************)
(* SimdCharPlatformCommon::movemask and ::any                              *)
(***************************************************************************)
movemask(p, log) == folly_movemask(p, log)

any_extremaNoClear(p, log, ig) ==
    LET m1 == movemask(p, log)
    IN  m1 # {}

any_extrema(p, log, ig) ==
    LET m1 == movemask(p, log)
        m2 == clear(p, m1, ig)
    IN  m2 # {}

\* overload resolution: `using Platform::any` plus the ignore_extrema overload
any(p, log, ig) ==
    IF ig.kind = "none" THEN Platform_any(p, log) ELSE any_extrema(p, log, ig)

(***************************************************************************)
(* SimdCharPlatformCommon::loada, both overloads                           *)
(***************************************************************************)
loada_none(pf, m, p, ig) == loadu(pf, m, p)

loada_extremaMasked(pf, m, p, ig) ==
    [i \in Lanes(pf) |->
        IF i < ig.first \/ i >= kCardinal(pf) - ig.last THEN 0 ELSE m[p + i]]

loada_extrema(pf, m, p, ig) == unsafeLoadu(pf, m, p)

loada(pf, m, p, ig) ==
    IF ig.kind = "none" THEN loada_none(pf, m, p, ig) ELSE loada_extrema(pf, m, p, ig)

\* How far past kCardinal the first and last counts of a descriptor are tried
IgnoreSlack == 1

\* Longest run of consecutive set bits tried in a mask, besides the all-ones mask
MaxRun == 1

Descriptors(p) ==
    {ignore_none} \cup
    {ignore_extrema(f, l) : f \in 0 .. (kCardinal(p) + IgnoreSlack),
                            l \in 0 .. (kCardinal(p) + IgnoreSlack)}

\* The descriptors that keep the caller contract first + last <= kCardinal
ValidDescriptors(p) ==
    {ig \in Descriptors(p) : ig.first + ig.last <= kCardinal(p)}

Masks(p) ==
    {{}, AllOnes(MmaskWidth(p))} \cup
    {Cast(MmaskWidth(p), a .. (a + len - 1)) : a \in Bits(MmaskWidth(p)), len \in 1 .. MaxRun}

ClearIdle == mmask = {} /\ cleared = {}

\* The logical vector of p whose true lanes are exactly T
Logical(p, T) == [i \in Lanes(p) |-> IF i \in T THEN 255 ELSE 0]

\* Most true lanes tried in a logical vector
MaxTrueLanes == 1

\* The subsets of S with at most k elements
RECURSIVE SubsetsUpTo(_, _)
SubsetsUpTo(S, k) ==
    IF k = 0 THEN {{}}
    ELSE LET smaller == SubsetsUpTo(S, k - 1)
         IN  smaller \cup {T \cup {x} : T \in smaller, x \in S}

LogicalVectors(p) == {Logical(p, T) : T \in SubsetsUpTo(Lanes(p), MaxTrueLanes)}

NoLog == <<>>

NoReg == <<>>

LoadIdle ==
    /\ mem = <<>> /\ ptr = 0 /\ readAddrs = {}
    /\ reg = NoReg /\ regUnsafe = NoReg /\ regA = NoReg /\ regAx = NoReg

SelIdle ==
    /\ FOLLY_X64 = FALSE /\ FOLLY_AARCH64 = FALSE /\ AVX2 = FALSE
    /\ ppAt = 0 /\ ppStack = <<>> /\ hasMacro = "undefined"
    /\ declared = {} /\ SimdCharPlatform = "undeclared" /\ aliasCount = 0

CmpIdle == xChar = 0 /\ eqLog = NoLog /\ leLog = NoLog

LogIdle ==
    /\ logA = NoLog /\ logB = NoLog /\ logOr = NoLog
    /\ anyNone = FALSE /\ anyA = FALSE /\ anyB = FALSE /\ anyOr = FALSE
    /\ maskA = {} /\ maskB = {} /\ maskOr = {}

BitsIdle == Uint = 8 /\ n = 0 /\ lowBits = {} /\ shiftBy = {}

InitBits ==
    /\ pc = "start"
    /\ ubShift \in UbShiftOutcomes
    /\ Uint \in UintWidths
    /\ n \in 0 .. MaxN
    /\ lowBits = {}
    /\ shiftBy = {}
    /\ platform = "Sse2"
    /\ ignore = ignore_none
    /\ ClearIdle
    /\ LogIdle
    /\ LoadIdle
    /\ CmpIdle
    /\ SelIdle

CallSetLowerNBits ==
    /\ pc = "start"
    /\ lowBits' = setLowerNBits(Uint, n)
    /\ shiftBy' = setLowerNBitsShift(Uint, n)
    /\ pc' = "done"
    /\ UNCHANGED <<ubShift, Uint, n, platform, ignore, clearVars, logVars, loadVars, cmpVars, selVars>>

NextBits == CallSetLowerNBits

SpecBits == InitBits /\ [][NextBits]_vars

InitClear ==
    /\ pc = "start"
    /\ ubShift \in UbShiftOutcomes
    /\ platform \in Platforms
    /\ mmask \in Masks(platform)
    /\ ignore \in Descriptors(platform)
    /\ cleared = {}
    /\ BitsIdle
    /\ SelIdle
    /\ LogIdle
    /\ LoadIdle
    /\ CmpIdle

CallClear ==
    /\ pc = "start"
    /\ cleared' = clear(platform, mmask, ignore)
    /\ pc' = "done"
    /\ UNCHANGED <<ubShift, platform, ignore, mmask, bitsVars, logVars, loadVars, cmpVars, selVars>>

NextClear == CallClear

SpecClear == InitClear /\ [][NextClear]_vars

InitAny ==
    /\ pc = "start"
    /\ ubShift = "mod64"
    /\ platform \in Platforms
    /\ logA \in LogicalVectors(platform)
    /\ ignore \in ValidDescriptors(platform)
    /\ logB = NoLog /\ logOr = NoLog
    /\ anyNone = FALSE /\ anyA = FALSE /\ anyB = FALSE /\ anyOr = FALSE
    /\ maskA = {} /\ maskB = {} /\ maskOr = {}
    /\ BitsIdle
    /\ SelIdle
    /\ ClearIdle
    /\ LoadIdle
    /\ CmpIdle

CallAnyIgnoreNone ==
    /\ pc = "start"
    /\ anyNone' = any(platform, logA, ignore_none)
    /\ pc' = "anyNone"
    /\ UNCHANGED <<ubShift, platform, ignore, bitsVars, clearVars, loadVars, cmpVars, selVars>>
    /\ UNCHANGED <<logA, logB, logOr, anyA, anyB, anyOr, maskA, maskB, maskOr>>

CallAny ==
    /\ pc = "anyNone"
    /\ anyA' = any(platform, logA, ignore)
    /\ pc' = "done"
    /\ UNCHANGED <<ubShift, platform, ignore, bitsVars, clearVars, loadVars, cmpVars, selVars>>
    /\ UNCHANGED <<logA, logB, logOr, anyNone, anyB, anyOr, maskA, maskB, maskOr>>

NextAny == CallAnyIgnoreNone \/ CallAny

SpecAny == InitAny /\ [][NextAny]_vars

\* The lanes of a logical vector that are true
TrueLanes(log) == {i \in DOMAIN log : log[i] = 255}

\* Logical vectors with no true lane, every lane true, or one true lane
BasicLogicalVectors(p) ==
    {Logical(p, {}), Logical(p, Lanes(p))} \cup {Logical(p, {i}) : i \in Lanes(p)}

\* Logical vectors with no true lane, every lane true, only the first or only
\* the last lane true, or the even lanes true
CornerLogicalVectors(p) ==
    {Logical(p, {}), Logical(p, Lanes(p)), Logical(p, {0}),
     Logical(p, {kCardinal(p) - 1}), Logical(p, {i \in Lanes(p) : i % 2 = 0})}

InitOr ==
    /\ pc = "start"
    /\ ubShift = "mod64"
    /\ platform \in Platforms
    /\ logA \in BasicLogicalVectors(platform)
    /\ logB \in CornerLogicalVectors(platform)
    /\ ignore \in ValidDescriptors(platform)
    /\ logOr = NoLog
    /\ anyNone = FALSE /\ anyA = FALSE /\ anyB = FALSE /\ anyOr = FALSE
    /\ maskA = {} /\ maskB = {} /\ maskOr = {}
    /\ BitsIdle
    /\ SelIdle
    /\ ClearIdle
    /\ LoadIdle
    /\ CmpIdle

CallLogicalOr ==
    /\ pc = "start"
    /\ logOr' = logical_or(platform, logA, logB)
    /\ pc' = "ored"
    /\ UNCHANGED <<ubShift, platform, ignore, bitsVars, clearVars, loadVars, cmpVars, selVars>>
    /\ UNCHANGED <<logA, logB, anyNone, anyA, anyB, anyOr, maskA, maskB, maskOr>>

CallAnyAndMasks ==
    /\ pc = "ored"
    /\ anyA' = any(platform, logA, ignore)
    /\ anyB' = any(platform, logB, ignore)
    /\ anyOr' = any(platform, logOr, ignore)
    /\ maskA' = clear(platform, movemask(platform, logA), ignore)
    /\ maskB' = clear(platform, movemask(platform, logB), ignore)
    /\ maskOr' = clear(platform, movemask(platform, logOr), ignore)
    /\ pc' = "done"
    /\ UNCHANGED <<ubShift, platform, ignore, bitsVars, clearVars, loadVars, cmpVars, selVars>>
    /\ UNCHANGED <<logA, logB, logOr, anyNone>>

NextOr == CallLogicalOr \/ CallAnyAndMasks

SpecOr == InitOr /\ [][NextOr]_vars

\* C2: for every logical vector and every ignore_extrema{first, last} with
\* first + last <= kCardinal, any(v, ignore) is true iff some lane i with
\* first <= i < kCardinal - last is true in v.
C2_AnyHonoursExtrema ==
    (pc = "done" /\ ignore.kind = "extrema") =>
        (anyA <=> \E i \in TrueLanes(logA) :
                    ignore.first <= i /\ i < kCardinal(platform) - ignore.last)

C2_Witness ==
    /\ pc = "done" /\ platform = "Aarch64" /\ ignore = ignore_extrema(6, 2)
    /\ TrueLanes(logA) = {5} /\ anyA = FALSE /\ anyNone = TRUE

\* C9: on every backend any(v, ignore_none) is true iff some lane of v is
\* true; the x86 reduction and the NEON reduction agree on every 16-lane
\* vector; and any(v, ignore_none) = any(v, ignore_extrema{0, 0}).
C9_AnyIgnoreNone ==
    (pc \in {"anyNone", "done"}) =>
        /\ (anyNone <=> TrueLanes(logA) # {})
        /\ (kCardinal(platform) = 16 => (Sse2_any(logA) <=> Aarch64_any(logA)))
        /\ (pc = "done" /\ ignore = ignore_extrema(0, 0) => (anyA <=> anyNone))

C9_Witness ==
    /\ pc = "done" /\ platform = "Aarch64" /\ ignore = ignore_extrema(0, 0)
    /\ TrueLanes(logA) = {15} /\ anyA = TRUE /\ anyNone = TRUE

\* C10: for all logical vectors a, b and every descriptor (ignore_none or
\* ignore_extrema with first + last <= kCardinal), any(logical_or(a, b), ig)
\* = any(a, ig) \/ any(b, ig); clear(movemask(logical_or(a, b)), ig) is the
\* bitwise or of clear(movemask(a), ig) and clear(movemask(b), ig); and clear
\* sets no bit that is zero in its input mask.
C10_ExclusionDistributesOverOr ==
    (pc = "done") =>
        /\ (anyOr <=> (anyA \/ anyB))
        /\ maskOr = Or(maskA, maskB)
        /\ maskA \subseteq movemask(platform, logA)
        /\ maskB \subseteq movemask(platform, logB)
        /\ maskOr \subseteq movemask(platform, logOr)

C10_Witness ==
    /\ pc = "done" /\ platform = "Sse2" /\ ignore = ignore_extrema(2, 1)
    /\ TrueLanes(logA) = {1} /\ TrueLanes(logB) = {i \in 0 .. 15 : i % 2 = 0}
    /\ anyA = FALSE /\ anyB = TRUE /\ anyOr = TRUE
    /\ maskOr = {2, 4, 6, 8, 10, 12, 14}

\* The values a char can hold, signed (-128..127) or unsigned (0..255)
CharValues == (0 - 128) .. 255

\* The bytes a ramp register starts at
RampStarts == {r \in Byte : r % 8 = 0}

\* The register whose lane i holds (r + i) mod 256
Ramp(p, r) == [i \in Lanes(p) |-> (r + i) % 256]

InitCompare ==
    /\ pc = "start"
    /\ ubShift = "mod64"
    /\ platform \in Platforms
    /\ ignore = ignore_none
    /\ reg \in {Ramp(platform, r) : r \in RampStarts}
    /\ xChar \in CharValues
    /\ eqLog = NoLog /\ leLog = NoLog
    /\ mem = <<>> /\ ptr = 0 /\ readAddrs = {}
    /\ regUnsafe = NoReg /\ regA = NoReg /\ regAx = NoReg
    /\ BitsIdle
    /\ SelIdle
    /\ ClearIdle
    /\ LogIdle

CallEqual ==
    /\ pc = "start"
    /\ eqLog' = equal(platform, reg, xChar)
    /\ pc' = "equal"
    /\ UNCHANGED <<ubShift, platform, ignore, bitsVars, clearVars, logVars, loadVars, selVars>>
    /\ UNCHANGED <<xChar, leLog>>

CallLeUnsigned ==
    /\ pc = "equal"
    /\ leLog' = le_unsigned(platform, reg, xChar)
    /\ pc' = "done"
    /\ UNCHANGED <<ubShift, platform, ignore, bitsVars, clearVars, logVars, loadVars, selVars>>
    /\ UNCHANGED <<xChar, eqLog>>

NextCompare == CallEqual \/ CallLeUnsigned

SpecCompare == InitCompare /\ [][NextCompare]_vars

\* C4: for every register byte r and every comparison byte x (by its bit
\* pattern, whatever the signedness of char), lane i of le_unsigned(reg, x) is
\* true iff r <= x as unsigned integers; the x86 derivation
\* equal(reg, unsigned_min(reg, broadcast(x))) and the NEON unsigned compare
\* give the same lanes; r = 0xFF against x = 0x01 is false.
C4_LeUnsigned ==
    (pc = "done") =>
        /\ \A i \in Lanes(platform) :
              leLog[i] = IF reg[i] <= ToByte(xChar) THEN 255 ELSE 0
        /\ cmpeq_epi8(reg, min_epu8(reg, set1_epi8(kCardinal(platform), xChar)))
              = vcleq_u8(reg, set1_epi8(kCardinal(platform), ToByte(xChar)))
        /\ (kCardinal(platform) = 16 =>
              Sse2_le_unsigned(reg, xChar) = Aarch64_le_unsigned(reg, xChar))

C4_Witness ==
    /\ pc = "done" /\ platform = "Sse2" /\ xChar = 1
    /\ reg[7] = 255 /\ leLog[7] = 0 /\ reg[8] = 0 /\ leLog[8] = 255

\* Farthest pointer into memory tried by the loads
MaxPtr == 1

\* The bytes a ramp memory starts at
RampBases == {0, 65, 250}

\* Readable memory of kCardinal + MaxPtr bytes whose byte a is (base + a) mod 256
RampMemory(p, base) == [a \in 0 .. (kCardinal(p) + MaxPtr - 1) |-> (base + a) % 256]

InitLoad ==
    /\ pc = "start"
    /\ ubShift = "mod64"
    /\ platform \in Platforms
    /\ ignore \in Descriptors(platform)
    /\ mem \in {RampMemory(platform, base) : base \in RampBases}
    /\ ptr \in 0 .. MaxPtr
    /\ readAddrs = {}
    /\ reg = NoReg /\ regUnsafe = NoReg /\ regA = NoReg /\ regAx = NoReg
    /\ BitsIdle
    /\ SelIdle
    /\ ClearIdle
    /\ LogIdle
    /\ CmpIdle

CallLoadu ==
    /\ pc = "start"
    /\ reg' = loadu(platform, mem, ptr)
    /\ readAddrs' = loadu_footprint(kCardinal(platform), ptr)
    /\ pc' = "loadu"
    /\ UNCHANGED <<ubShift, platform, ignore, bitsVars, clearVars, logVars, cmpVars, selVars>>
    /\ UNCHANGED <<mem, ptr, regUnsafe, regA, regAx>>

CallUnsafeLoadu ==
    /\ pc = "loadu"
    /\ regUnsafe' = unsafeLoadu(platform, mem, ptr)
    /\ readAddrs' = loadu_footprint(kCardinal(platform), ptr)
    /\ pc' = "unsafeLoadu"
    /\ UNCHANGED <<ubShift, platform, ignore, bitsVars, clearVars, logVars, cmpVars, selVars>>
    /\ UNCHANGED <<mem, ptr, reg, regA, regAx>>

CallLoadaIgnoreNone ==
    /\ pc = "unsafeLoadu"
    /\ regA' = loada(platform, mem, ptr, ignore_none)
    /\ readAddrs' = loadu_footprint(kCardinal(platform), ptr)
    /\ pc' = "loadaNone"
    /\ UNCHANGED <<ubShift, platform, ignore, bitsVars, clearVars, logVars, cmpVars, selVars>>
    /\ UNCHANGED <<mem, ptr, reg, regUnsafe, regAx>>

CallLoada ==
    /\ pc = "loadaNone"
    /\ regAx' = loada(platform, mem, ptr, ignore)
    /\ readAddrs' = loadu_footprint(kCardinal(platform), ptr)
    /\ pc' = "done"
    /\ UNCHANGED <<ubShift, platform, ignore, bitsVars, clearVars, logVars, cmpVars, selVars>>
    /\ UNCHANGED <<mem, ptr, reg, regUnsafe, regA>>

NextLoad == CallLoadu \/ CallUnsafeLoadu \/ CallLoadaIgnoreNone \/ CallLoada

SpecLoad == InitLoad /\ [][NextLoad]_vars

\* The register holding memory bytes p[0] .. p[kCardinal - 1]
MemoryAt(pf, m, p) == [i \in Lanes(pf) |-> m[p + i]]

\* C8: for every pointer to at least kCardinal readable bytes and every
\* backend, loada(p, ignore_none), loada(p, ignore_extrema{first, last}),
\* loadu(p, ignore_none) and unsafeLoadu(p, ignore_none) return the same
\* register, lane i holding p[i]; exactly kCardinal bytes are read; first and
\* last affect neither.
C8_LoadsAgree ==
    /\ (pc # "start" =>
          /\ reg = MemoryAt(platform, mem, ptr)
          /\ readAddrs = ptr .. (ptr + kCardinal(platform) - 1)
          /\ Cardinality(readAddrs) = kCardinal(platform))
    /\ (pc = "done" =>
          /\ regUnsafe = reg
          /\ regA = reg
          /\ regAx = reg)

C8_Witness ==
    /\ pc = "done" /\ platform = "Avx2" /\ ignore = ignore_extrema(3, 2)
    /\ ptr = 1 /\ mem[1] = 251 /\ regAx[0] = 251 /\ regAx[31] = 26

\* A buffer of kCardinal bytes, all 'A' but for "BC" at offsets at and at + 1
ScanBuffer(p, at) ==
    [a \in Lanes(p) |-> IF a = at THEN 66 ELSE IF a = at + 1 THEN 67 ELSE 65]

\* The descriptors of a scan's first chunk and last chunk
ChunkDescriptors(p) ==
    {ignore_none} \cup {ignore_extrema(f, 0) : f \in 0 .. kCardinal(p)}
                  \cup {ignore_extrema(0, l) : l \in 0 .. kCardinal(p)}

InitScan ==
    /\ pc = "start"
    /\ ubShift = "mod64"
    /\ platform \in Platforms
    /\ ignore \in ChunkDescriptors(platform)
    /\ mem \in {ScanBuffer(platform, at) : at \in 0 .. (kCardinal(platform) - 2)}
    /\ ptr = 0
    /\ xChar \in {65, 66, 67}
    /\ readAddrs = {}
    /\ reg = NoReg /\ regUnsafe = NoReg /\ regA = NoReg /\ regAx = NoReg
    /\ eqLog = NoLog /\ leLog = NoLog
    /\ BitsIdle
    /\ SelIdle
    /\ ClearIdle
    /\ LogIdle

ScanLoadu ==
    /\ pc = "start"
    /\ reg' = loadu(platform, mem, ptr)
    /\ readAddrs' = loadu_footprint(kCardinal(platform), ptr)
    /\ pc' = "loaded"
    /\ UNCHANGED <<ubShift, platform, ignore, bitsVars, clearVars, logVars, cmpVars, selVars>>
    /\ UNCHANGED <<mem, ptr, regUnsafe, regA, regAx>>

ScanEqual ==
    /\ pc = "loaded"
    /\ eqLog' = equal(platform, reg, xChar)
    /\ pc' = "compared"
    /\ UNCHANGED <<ubShift, platform, ignore, bitsVars, clearVars, logVars, loadVars, selVars>>
    /\ UNCHANGED <<xChar, leLog>>

ScanMovemask ==
    /\ pc = "compared"
    /\ mmask' = movemask(platform, eqLog)
    /\ pc' = "masked"
    /\ UNCHANGED <<ubShift, platform, ignore, bitsVars, cleared, logVars, loadVars, cmpVars, selVars>>

ScanAnyIgnoreNone ==
    /\ pc = "masked"
    /\ anyNone' = any(platform, eqLog, ignore_none)
    /\ pc' = "anyNone"
    /\ UNCHANGED <<ubShift, platform, ignore, bitsVars, clearVars, loadVars, cmpVars, selVars>>
    /\ UNCHANGED <<logA, logB, logOr, anyA, anyB, anyOr, maskA, maskB, maskOr>>

ScanAny ==
    /\ pc = "anyNone"
    /\ anyA' = any(platform, eqLog, ignore)
    /\ pc' = "done"
    /\ UNCHANGED <<ubShift, platform, ignore, bitsVars, clearVars, loadVars, cmpVars, selVars>>
    /\ UNCHANGED <<logA, logB, logOr, anyNone, anyB, anyOr, maskA, maskB, maskOr>>

NextScan == ScanLoadu \/ ScanEqual \/ ScanMovemask \/ ScanAnyIgnoreNone \/ ScanAny

SpecScan == InitScan /\ [][NextScan]_vars

\* The lanes whose bit-group in a compact mask has a set bit
SetGroups(p, m) ==
    {i \in Lanes(p) : \E b \in Bits(kMmaskBitsPerElement(p)) :
        i * kMmaskBitsPerElement(p) + b \in m}

\* The 16-byte buffer "AAAABCAAAAAAAAAA"
ScenarioBuffer ==
    [a \in 0 .. 15 |-> IF a = 4 THEN 66 ELSE IF a = 5 THEN 67 ELSE 65]

ScenarioRun ==
    /\ pc = "done" /\ kCardinal(platform) = 16 /\ mem = ScenarioBuffer
    /\ xChar = 66 /\ ignore = ignore_extrema(6, 0)

\* C5 as stated: on a 16-lane backend with the buffer "AAAABCAAAAAAAAAA",
\* equal(loadu(buffer), 'B') has exactly lane 5 true, its movemask has exactly
\* one set bit-group, at position 5, any(result, ignore_none) is true and
\* any(result, ignore_extrema{6, 0}) is false.
C5_ScenarioLaneFive ==
    ScenarioRun =>
        /\ TrueLanes(eqLog) = {5}
        /\ \A i \in Lanes(platform) : eqLog[i] \in {0, 255}
        /\ SetGroups(platform, mmask) = {5}
        /\ anyNone = TRUE
        /\ anyA = FALSE

\* C5 amended: with that buffer the 'B' is at lane 4 (lanes counted from 0):
\* equal(loadu(buffer), 'B') has exactly lane 4 true, its movemask has exactly
\* one set bit-group, at position 4, any(result, ignore_none) is true and
\* any(result, ignore_extrema{6, 0}) is false.
C5_ScenarioLaneFour ==
    ScenarioRun =>
        /\ TrueLanes(eqLog) = {4}
        /\ \A i \in Lanes(platform) : eqLog[i] \in {0, 255}
        /\ SetGroups(platform, mmask) = {4}
        /\ anyNone = TRUE
        /\ anyA = FALSE

C5_Witness ==
    /\ ScenarioRun /\ platform = "Aarch64" /\ reg = ScenarioBuffer
    /\ mmask = 16 .. 19 /\ anyNone = TRUE /\ anyA = FALSE

(***************************************************************************)
(* Backend selection: the preprocessor's pass over the header's            *)
(* conditional directives and the declarations they guard.                 *)
(***************************************************************************)
D(line, kind, name, val) == [line |-> line, kind |-> kind, name |-> name, val |-> val]

Directives == <<
    D(26, "if", "FOLLY_X64", ""),
    D(27, "include", "immintrin.h", ""),
    D(28, "endif", "", ""),
    D(30, "if", "FOLLY_AARCH64", ""),
    D(31, "include", "arm_neon.h", ""),
    D(32, "endif", "", ""),
    D(80, "if", "FOLLY_X64 || FOLLY_AARCH64", ""),
    D(83, "struct", "SimdCharPlatformCommon", ""),
    D(146, "endif", "", ""),
    D(148, "if", "FOLLY_X64", ""),
    D(150, "struct", "SimdCharSse2PlatformSpecific", ""),
    D(193, "define", "FOLLY_DETAIL_HAS_SIMD_CHAR_PLATFORM", "1"),
    D(195, "using", "SimdCharSse2Platform", "SimdCharPlatformCommon<SimdCharSse2PlatformSpecific>"),
    D(198, "if", "defined(__AVX2__)", ""),
    D(200, "struct", "SimdCharAvx2PlatformSpecific", ""),
    D(241, "using", "SimdCharAvx2Platform", "SimdCharPlatformCommon<SimdCharAvx2PlatformSpecific>"),
    D(244, "using", "SimdCharPlatform", "SimdCharAvx2Platform"),
    D(246, "else", "", ""),
    D(247, "using", "SimdCharPlatform", "SimdCharSse2Platform"),
    D(248, "endif", "", ""),
    D(250, "elif", "FOLLY_AARCH64", ""),
    D(252, "struct", "SimdCharAarch64PlatformSpecific", ""),
    D(288, "define", "FOLLY_DETAIL_HAS_SIMD_CHAR_PLATFORM", "1"),
    D(290, "using", "SimdCharAarch64Platform", "SimdCharPlatformCommon<SimdCharAarch64PlatformSpecific>"),
    D(293, "using", "SimdCharPlatform", "SimdCharAarch64Platform"),
    D(295, "define", "FOLLY_DETAIL_HAS_SIMD_CHAR_PLATFORM", "1"),
    D(297, "else", "", ""),
    D(299, "define", "FOLLY_DETAIL_HAS_SIMD_CHAR_PLATFORM", "0"),
    D(301, "using", "SimdCharPlatform", "void"),
    D(303, "endif", "", "") >>

\* The value of the condition of the #if / #elif at a line
CondSse2OnAnyBackend(line) ==
    CASE line = 26 -> FOLLY_X64
      [] line = 30 -> FOLLY_AARCH64
      [] line = 80 -> FOLLY_X64 \/ FOLLY_AARCH64
      [] line = 148 -> FOLLY_X64 \/ FOLLY_AARCH64
      [] line = 198 -> AVX2
      [] line = 250 -> FOLLY_AARCH64

Cond(line) ==
    CASE line = 26 -> FOLLY_X64
      [] line = 30 -> FOLLY_AARCH64
      [] line = 80 -> FOLLY_X64 \/ FOLLY_AARCH64
      [] line = 148 -> FOLLY_X64
      [] line = 198 -> AVX2
      [] line = 250 -> FOLLY_AARCH64

\* A conditional's frame: "active" (its current group is compiled), "pending"
\* (no group taken yet), "done" (a group was taken), "dead" (opened in a
\* skipped group)
Compiling(stack) == \A i \in 1 .. Len(stack) : stack[i] = "active"

Here == Directives[ppAt]

Pop(stack) == SubSeq(stack, 1, Len(stack) - 1)

Top(stack) == stack[Len(stack)]

Advance ==
    /\ ppAt' = ppAt + 1
    /\ pc' = IF ppAt + 1 > Len(Directives) THEN "done" ELSE "preprocessing"
    /\ UNCHANGED <<ubShift, platform, ignore, bitsVars, clearVars, logVars, loadVars, cmpVars>>
    /\ UNCHANGED signals

InitSelect ==
    /\ pc = "preprocessing"
    /\ ubShift = "mod64"
    /\ platform = "Sse2"
    /\ ignore = ignore_none
    /\ FOLLY_X64 \in BOOLEAN
    /\ FOLLY_AARCH64 \in BOOLEAN
    /\ AVX2 \in BOOLEAN
    /\ ppAt = 1 /\ ppStack = <<>> /\ hasMacro = "undefined"
    /\ declared = {} /\ SimdCharPlatform = "undeclared" /\ aliasCount = 0
    /\ Uint = 8 /\ n = 0 /\ lowBits = {} /\ shiftBy = {}
    /\ ClearIdle
    /\ LogIdle
    /\ LoadIdle
    /\ CmpIdle

PpIf ==
    /\ pc = "preprocessing" /\ Here.kind = "if"
    /\ ppStack' = Append(ppStack,
            IF ~Compiling(ppStack) THEN "dead"
            ELSE IF Cond(Here.line) THEN "active" ELSE "pending")
    /\ Advance
    /\ UNCHANGED <<hasMacro, declared, SimdCharPlatform, aliasCount>>

PpElif ==
    /\ pc = "preprocessing" /\ Here.kind = "elif"
    /\ ppStack' = Append(Pop(ppStack),
            CASE Top(ppStack) = "active" -> "done"
              [] Top(ppStack) = "pending" -> IF Cond(Here.line) THEN "active" ELSE "pending"
              [] OTHER -> Top(ppStack))
    /\ Advance
    /\ UNCHANGED <<hasMacro, declared, SimdCharPlatform, aliasCount>>

PpElse ==
    /\ pc = "preprocessing" /\ Here.kind = "else"
    /\ ppStack' = Append(Pop(ppStack),
            CASE Top(ppStack) = "active" -> "done"
              [] Top(ppStack) = "pending" -> "active"
              [] OTHER -> Top(ppStack))
    /\ Advance
    /\ UNCHANGED <<hasMacro, declared, SimdCharPlatform, aliasCount>>

PpEndif ==
    /\ pc = "preprocessing" /\ Here.kind = "endif"
    /\ ppStack' = Pop(ppStack)
    /\ Advance
    /\ UNCHANGED <<hasMacro, declared, SimdCharPlatform, aliasCount>>

PpInclude ==
    /\ pc = "preprocessing" /\ Here.kind = "include" /\ Compiling(ppStack)
    /\ declared' = declared \cup {Here.name}
    /\ Advance
    /\ UNCHANGED <<ppStack, hasMacro, SimdCharPlatform, aliasCount>>

PpDefine ==
    /\ pc = "preprocessing" /\ Here.kind = "define" /\ Compiling(ppStack)
    /\ hasMacro' = Here.val
    /\ Advance
    /\ UNCHANGED <<ppStack, declared, SimdCharPlatform, aliasCount>>

DeclareStruct ==
    /\ pc = "preprocessing" /\ Here.kind = "struct" /\ Compiling(ppStack)
    /\ declared' = declared \cup {Here.name}
    /\ Advance
    /\ UNCHANGED <<ppStack, hasMacro, SimdCharPlatform, aliasCount>>

DeclareUsing ==
    /\ pc = "preprocessing" /\ Here.kind = "using" /\ Compiling(ppStack)
    /\ declared' = declared \cup {Here.name}
    /\ IF Here.name = "SimdCharPlatform"
       THEN SimdCharPlatform' = Here.val /\ aliasCount' = aliasCount + 1
       ELSE UNCHANGED <<SimdCharPlatform, aliasCount>>
    /\ Advance
    /\ UNCHANGED <<ppStack, hasMacro>>

PpSkip ==
    /\ pc = "preprocessing"
    /\ Here.kind \in {"include", "define", "struct", "using"}
    /\ ~Compiling(ppStack)
    /\ Advance
    /\ UNCHANGED <<ppStack, hasMacro, declared, SimdCharPlatform, aliasCount>>

NextSelect ==
    \/ PpIf \/ PpElif \/ PpElse \/ PpEndif
    \/ PpInclude \/ PpDefine \/ DeclareStruct \/ DeclareUsing \/ PpSkip

SpecSelect == InitSelect /\ [][NextSelect]_vars

\* C7: for every combination of the target signals exactly one platform is
\* selected: AVX2 iff x86-64 and AVX2, SSE2 iff x86-64 and not AVX2, NEON iff
\* not x86-64 and AArch64, otherwise void; the flag
\* FOLLY_DETAIL_HAS_SIMD_CHAR_PLATFORM is 1 iff the platform is not void and
\* is never left undefined.
C7_ExactlyOnePlatform ==
    (pc = "done") =>
        /\ aliasCount = 1
        /\ SimdCharPlatform =
              (IF FOLLY_X64 /\ AVX2 THEN "SimdCharAvx2Platform"
               ELSE IF FOLLY_X64 THEN "SimdCharSse2Platform"
               ELSE IF FOLLY_AARCH64 THEN "SimdCharAarch64Platform"
               ELSE "void")
        /\ hasMacro \in {"0", "1"}
        /\ (hasMacro = "1" <=> SimdCharPlatform # "void")
        /\ (SimdCharPlatform # "void" =>
              {SimdCharPlatform, "SimdCharPlatformCommon"} \subseteq declared)
        /\ ppStack = <<>>

C7_Witness ==
    /\ pc = "done" /\ ~FOLLY_X64 /\ FOLLY_AARCH64 /\ AVX2
    /\ SimdCharPlatform = "SimdCharAarch64Platform" /\ hasMacro = "1"

\* Bit-group i of a compact mask, as the set of its set bit offsets
Group(p, m, i) ==
    {b \in Bits(kMmaskBitsPerElement(p)) : i * kMmaskBitsPerElement(p) + b \in m}

\* The mask m with the bit-groups of the first f and the last l lanes zeroed
LanesZeroed(p, m, f, l) ==
    {b \in m : \E i \in Lanes(p) :
        /\ i >= f
        /\ i < kCardinal(p) - l
        /\ b \in (i * kMmaskBitsPerElement(p)) .. ((i + 1) * kMmaskBitsPerElement(p) - 1)}

\* C1: on each backend configuration, for every mask and every descriptor
\* with first, last >= 0 and first + last <= kCardinal, clear zeroes bit-group
\* i for i < first and for i >= kCardinal - last and keeps every other
\* bit-group of the mask; all-ones on 16 lanes stays non-zero for first = 6
\* and becomes zero for first = 16.
C1_ClearZeroesExtrema ==
    (pc = "done" /\ ignore.kind = "extrema"
        /\ ignore.first + ignore.last <= kCardinal(platform)) =>
        /\ cleared \subseteq Bits(MmaskWidth(platform))
        /\ \A i \in Lanes(platform) :
              Group(platform, cleared, i) =
                IF i < ignore.first \/ i >= kCardinal(platform) - ignore.last
                THEN {}
                ELSE Group(platform, mmask, i)
        /\ (kCardinal(platform) = 16 /\ mmask = AllOnes(MmaskWidth(platform))
                /\ ignore.last = 0) =>
              /\ (ignore.first = 6 => cleared # {})
              /\ (ignore.first = 16 => cleared = {})

C1_Witness ==
    /\ pc = "done" /\ platform = "Aarch64" /\ ignore = ignore_extrema(6, 0)
    /\ mmask = AllOnes(64) /\ cleared = 24 .. 63

\* C6 as stated: with first and last in 0..kCardinal and first + last >
\* kCardinal, clear returns a mask that differs from the input mask with the
\* first `first` and the last `last` bit-groups zeroed.
C6_ClearIncorrectPastContract ==
    (pc = "done" /\ ignore.kind = "extrema"
        /\ ignore.first \in 0 .. kCardinal(platform)
        /\ ignore.last \in 0 .. kCardinal(platform)
        /\ ignore.first + ignore.last > kCardinal(platform)) =>
        cleared # LanesZeroed(platform, mmask, ignore.first, ignore.last)

\* C6 amended: with first and last in 0..kCardinal and first + last >
\* kCardinal, clear validates nothing (the call is possible for every such
\* descriptor) and returns the zero mask, which is the input mask with the
\* first `first` and the last `last` bit-groups zeroed.
C6_ClearZeroPastContract ==
    /\ (pc = "start" => ENABLED CallClear)
    /\ (pc = "done" /\ ignore.kind = "extrema"
          /\ ignore.first \in 0 .. kCardinal(platform)
          /\ ignore.last \in 0 .. kCardinal(platform)
          /\ ignore.first + ignore.last > kCardinal(platform)) =>
          /\ cleared = {}
          /\ cleared = LanesZeroed(platform, mmask, ignore.first, ignore.last)

C6_Witness ==
    /\ pc = "done" /\ platform = "Avx2" /\ ignore = ignore_extrema(20, 20)
    /\ mmask = AllOnes(32) /\ cleared = {}

\* C3: for every width W in {8,16,32,64} and 0 <= n <= W, setLowerNBits<Uint>(n)
\* is 2^n - 1 (exactly the lowest n bits set), and no shift by 64 or more is
\* evaluated on the 64-bit intermediate.
C3_SetLowerNBits ==
    (pc = "done" /\ n <= Uint) =>
        /\ lowBits = Bits(n)
        /\ (n <= 30 => Val(lowBits) = 2^n - 1)
        /\ (n = 0 => lowBits = {})
        /\ (n = Uint => lowBits = AllOnes(Uint))
        /\ \A k \in shiftBy : k < 64

C3_Witness == pc = "done" /\ Uint = 64 /\ n = 64 /\ lowBits = AllOnes(64) /\ shiftBy = {}
====
